---- MODULE Spec2Model ----
(***************************************************************************)
(* Model of mp3_to_wav_splitter.py: convert_mp3_to_wav_clips and main.     *)
(* Strings are sequences of one-character strings, the filesystem is a set *)
(* of directories and a function from file paths to file contents, and the *)
(* external decoder (librosa.load) and encoder (sf.write) are environment  *)
(* steps that either succeed or raise.                                     *)
(***************************************************************************)
EXTENDS Integers, Sequences, FiniteSets

VARIABLES
    input_file,       \* argument: name of the input file
    output_dir,       \* argument: output directory
    clip_duration,    \* argument: seconds per clip
    sample_rate,      \* argument: target sample rate
    mp3,              \* the input file on disk: its directory can be
                      \* searched, it exists, it is decodable, its samples
    stdout_encoding,  \* the encoding of sys.stdout
    dirs,             \* filesystem: the directories that exist
    files,            \* filesystem: path -> [data, rate] of the WAV files
    pc,               \* position of control in main / convert_mp3_to_wav_clips
    loaded,           \* librosa.load has returned in this run
    audio_data,       \* local: the decoded buffer
    samples_per_clip, \* local
    num_clips,        \* local
    i,                \* local: loop variable of the clip loop
    created_files,    \* local: list of created paths
    raised,           \* the exception raised by convert_mp3_to_wav_clips
    returned,         \* convert_mp3_to_wav_clips returned normally
    result,           \* the list it returned
    exitCode,         \* what main returned (-1: it has not returned)
    escaped,          \* the exception that left main uncaught
    handed,           \* log of the calls of sf.write in this run
    decodeCalls,      \* number of calls of librosa.load so far
    entry,            \* filesystem and decode count when this run started
    run,              \* 1: first invocation, 2: second, identical one
    prev              \* outcome of the first invocation

vars == <<input_file, output_dir, clip_duration, sample_rate, mp3,
          stdout_encoding,
          dirs, files, pc, loaded, audio_data, samples_per_clip, num_clips, i,
          created_files, raised, returned, result, exitCode, escaped, handed,
          decodeCalls, entry, run, prev>>

args == <<input_file, output_dir, clip_duration, sample_rate, mp3,
          stdout_encoding>>
locals == <<audio_data, samples_per_clip, num_clips, i, created_files>>

-----------------------------------------------------------------------------
\* Bounds of the model.

\* Every buffer over Samples of length at most MaxLen is an input.
MaxLen == 3
\* One longer buffer, so that clip numbers reach two digits.
LongLen == 10
\* Clip durations range over -1 .. MaxDuration.
MaxDuration == 2

\* The code never inspects a sample value: a zero and a nonzero value are what
\* padding and copying can be told apart by.
Samples == {0, 1}
SampleRates == {1, 2}
ClipDurations == {-1, 0} \cup (1 .. MaxDuration)

Min(a, b) == IF a < b THEN a ELSE b
Max(a, b) == IF a > b THEN a ELSE b

SeqsUpTo(S, n) == UNION {[1 .. k -> S] : k \in 0 .. n}
Ramp(n) == [k \in 1 .. n |-> (k % 3) - 1]
Buffers == SeqsUpTo(Samples, MaxLen) \cup {Ramp(LongLen)}

InputFiles == { <<"a", ".", "m", "p", "3">>,
                <<"b", ".", "x", ".", "M", "P", "3">>,
                <<"a", ".", "w", "a", "v">>,
                <<".", "m", "p", "3">> }
OutputDirs == { <<"o">>, <<"p", "/", "o">> }

-----------------------------------------------------------------------------
\* Strings and paths (pathlib).

\* str.lower on the characters the inputs use.
LowerChar(c) == IF c = "M" THEN "m" ELSE IF c = "P" THEN "p" ELSE c
Lower(s) == [k \in 1 .. Len(s) |-> LowerChar(s[k])]

\* str.rfind(".") as a 1-based position, 0 when there is none.
RFindDot(s) ==
    LET ps == {k \in 1 .. Len(s) : s[k] = "."}
    IN IF ps = {} THEN 0 ELSE CHOOSE k \in ps : \A m \in ps : m <= k

\* PurePath.suffix: the last dot and what follows it, unless the dot is the
\* first or the last character of the name.
Suffix(name) ==
    LET d == RFindDot(name)
    IN IF 1 < d /\ d < Len(name) THEN SubSeq(name, d, Len(name)) ELSE <<>>

\* PurePath.stem: the name without its suffix.
Stem(name) ==
    LET d == RFindDot(name)
    IN IF 1 < d /\ d < Len(name) THEN SubSeq(name, 1, d - 1) ELSE name

\* The directories mkdir(parents=True) makes sure exist: the path and each of
\* its ancestors.
Parents(d) ==
    {SubSeq(d, 1, k - 1) : k \in {m \in 2 .. Len(d) : d[m] = "/"}} \cup {d}

\* str(output_path / clip_filename)
JoinPath(d, name) == d \o <<"/">> \o name

DigitChar(d) == <<"0", "1", "2", "3", "4", "5", "6", "7", "8", "9">>[d + 1]

RECURSIVE Digits(_)
Digits(n) ==
    IF n < 10 THEN <<DigitChar(n)>>
    ELSE Digits(n \div 10) \o <<DigitChar(n % 10)>>

\* format(n, "03d"): the decimal digits, zero-filled on the left to width 3.
Fmt03(n) ==
    LET ds == Digits(n)
    IN [k \in 1 .. Max(0, 3 - Len(ds)) |-> "0"] \o ds

\* The clip number taken 0-based.
ClipFilenameZeroBased(base, idx) ==
    base \o <<"_", "c", "l", "i", "p", "_">> \o Fmt03(idx)
         \o <<".", "w", "a", "v">>

\* f"{base_filename}_clip_{i+1:03d}.wav"
ClipFilename(base, idx) ==
    base \o <<"_", "c", "l", "i", "p", "_">> \o Fmt03(idx + 1)
         \o <<".", "w", "a", "v">>

ClipPath(idx) == JoinPath(output_dir, ClipFilename(Stem(input_file), idx))

-----------------------------------------------------------------------------
\* Arithmetic and arrays (numpy).

\* int(clip_duration * sample_rate)
SamplesPerClip(d, r) == d * r

\* Floor division in place of the ceiling.
NumClipsFloor(total, per) ==
    IF per > 0 THEN total \div per
    ELSE 0 - (total \div (0 - per))

\* Never fewer than one clip.
NumClipsAtLeastOne(total, per) ==
    IF per > 0 THEN Max(1, (total + per - 1) \div per)
    ELSE 0 - (total \div (0 - per))

\* int(np.ceil(total / per)) for per # 0 and total >= 0.
NumClips(total, per) ==
    IF per > 0 THEN (total + per - 1) \div per
    ELSE 0 - (total \div (0 - per))

\* a[lo:hi] for 0 <= lo, 0 <= hi
Slice(a, lo, hi) ==
    LET l == Min(lo, Len(a))
        h == Min(hi, Len(a))
    IN IF h <= l THEN <<>> ELSE SubSeq(a, l + 1, h)

\* No padding at all.
PadNone(a, n) == a

\* np.pad(a, (0, n), mode='constant', constant_values=0)
Pad(a, n) == a \o [k \in 1 .. n |-> 0]

\* A start one sample late.
StartSampleLate(idx, per) == idx * per + 1

StartSample(idx, per) == idx * per
EndSample(idx, per, total) == Min((idx + 1) * per, total)

\* The clip of index idx as handed to sf.write.
ClipData(a, idx, per) ==
    LET raw == Slice(a, StartSample(idx, per), EndSample(idx, per, Len(a)))
    IN IF Len(raw) < per THEN Pad(raw, per - Len(raw)) ELSE raw

RawLen(a, idx, per) ==
    Len(Slice(a, StartSample(idx, per), EndSample(idx, per, Len(a))))

-----------------------------------------------------------------------------
\* Filesystem.

NoFiles == [p \in {} |-> [data |-> <<>>, rate |-> 0]]

\* A write that appends to a file that exists already.
WriteFileAppend(fs, path, data, rate) ==
    [p \in DOMAIN fs \cup {path} |->
        IF p = path
        THEN [data |-> (IF p \in DOMAIN fs THEN fs[p].data ELSE <<>>) \o data,
              rate |-> rate]
        ELSE fs[p]]

\* sf.write(path, data, rate) creates the file or replaces its content.
WriteFile(fs, path, data, rate) ==
    [p \in DOMAIN fs \cup {path} |->
        IF p = path THEN [data |-> data, rate |-> rate] ELSE fs[p]]

\* What a failed sf.write may leave at the path: nothing new, or a file
\* holding a prefix of the data, which may be all of it.
FailedWrites(fs, path, data, rate) ==
    {fs} \cup {WriteFile(fs, path, SubSeq(data, 1, n), rate) :
                  n \in 0 .. Len(data)}

\* The characters outside ASCII that main prints, by code point.
Line152 == {"U+00E2", "U+0153", "U+2026"}
Line153 == {"U+00F0", "U+0178", "U+201C"}
Line156 == {"U+00E2", "U+0152"}

\* Of those characters, the ones an encoding of sys.stdout has.
Repertoire(enc) ==
    CASE enc = "utf-8" ->
            {"U+00E2", "U+0152", "U+0153", "U+00F0", "U+0178", "U+2026",
             "U+201C"}
      [] enc = "cp1254" ->
            {"U+00E2", "U+0152", "U+0153", "U+0178", "U+2026", "U+201C"}
      [] enc = "iso8859-15" ->
            {"U+00E2", "U+0152", "U+0153", "U+00F0", "U+0178"}
      [] enc = "ascii" -> {}

\* One encoding for each way the prints of main can go: all succeed; line 153
\* raises and line 156 succeeds; line 152 raises and line 156 succeeds; all
\* raise.
Encodings == {"utf-8", "cp1254", "iso8859-15", "ascii"}

\* print(text) raises UnicodeEncodeError unless the encoding has every
\* character of the text.
CanPrint(enc, text) == text \subseteq Repertoire(enc)

Environments == {"fresh", "dir", "stale"}

InitDirs(env, d) == IF env = "fresh" THEN {} ELSE Parents(d)

\* "stale": the directory holds a file of an earlier conversion of another
\* recording, under the name of this input's first clip.
InitFiles(env, d, name) ==
    IF env = "stale"
    THEN WriteFile(NoFiles, JoinPath(d, ClipFilename(Stem(name), 0)),
                   <<1, 1, 1, 1, 1>>, 1)
    ELSE NoFiles

-----------------------------------------------------------------------------

NoPrev == [returned |-> FALSE, result |-> <<>>, dirs |-> {}, files |-> NoFiles]

Init ==
    /\ input_file \in InputFiles
    /\ output_dir \in OutputDirs
    /\ clip_duration \in ClipDurations
    /\ sample_rate \in SampleRates
    /\ stdout_encoding \in Encodings
    /\ mp3 \in {[searchable |-> s, exists |-> e, decodable |-> FALSE,
                 samples |-> <<>>] : s, e \in BOOLEAN}
               \cup {[searchable |-> TRUE, exists |-> TRUE,
                      decodable |-> TRUE, samples |-> b] : b \in Buffers}
    /\ \E env \in Environments :
          /\ dirs = InitDirs(env, output_dir)
          /\ files = InitFiles(env, output_dir, input_file)
    /\ pc = "validate"
    /\ loaded = FALSE
    /\ audio_data = <<>>
    /\ samples_per_clip = 0
    /\ num_clips = 0
    /\ i = 0
    /\ created_files = <<>>
    /\ raised = "none"
    /\ returned = FALSE
    /\ result = <<>>
    /\ exitCode = -1
    /\ escaped = "none"
    /\ handed = <<>>
    /\ decodeCalls = 0
    /\ entry = [dirs |-> dirs, files |-> files, decodes |-> 0]
    /\ run = 1
    /\ prev = NoPrev

Raise(e) ==
    /\ raised' = e
    /\ pc' = "except"

\* input_path.exists() raising: the stat of the path is refused (EACCES, a
\* directory of the path cannot be searched) and pathlib lets the
\* PermissionError through.
RaisePermissionError ==
    /\ pc = "validate"
    /\ ~mp3.searchable
    /\ Raise("PermissionError")
    /\ UNCHANGED <<args, locals, dirs, files, loaded, returned, result,
                   exitCode, escaped, handed, decodeCalls, entry, run, prev>>

\* if not input_path.exists(): raise FileNotFoundError
RaiseFileNotFound ==
    /\ pc = "validate"
    /\ mp3.searchable
    /\ ~mp3.exists
    /\ Raise("FileNotFoundError")
    /\ UNCHANGED <<args, locals, dirs, files, loaded, returned, result,
                   exitCode, escaped, handed, decodeCalls, entry, run, prev>>

\* The extension test placed after the creation of the output directory.
RaiseValueErrorAfterMkdir ==
    /\ pc = "validate"
    /\ mp3.searchable
    /\ mp3.exists
    /\ Lower(Suffix(input_file)) # <<".", "m", "p", "3">>
    /\ dirs' = dirs \cup Parents(output_dir)
    /\ Raise("ValueError")
    /\ UNCHANGED <<args, locals, files, loaded, returned, result,
                   exitCode, escaped, handed, decodeCalls, entry, run, prev>>

\* if input_path.suffix.lower() not in ['.mp3']: raise ValueError
RaiseValueError ==
    /\ pc = "validate"
    /\ mp3.searchable
    /\ mp3.exists
    /\ Lower(Suffix(input_file)) # <<".", "m", "p", "3">>
    /\ Raise("ValueError")
    /\ UNCHANGED <<args, locals, dirs, files, loaded, returned, result,
                   exitCode, escaped, handed, decodeCalls, entry, run, prev>>

ValidateOk ==
    /\ pc = "validate"
    /\ mp3.searchable
    /\ mp3.exists
    /\ Lower(Suffix(input_file)) = <<".", "m", "p", "3">>
    /\ pc' = "mkdir"
    /\ UNCHANGED <<args, locals, dirs, files, loaded, raised, returned, result,
                   exitCode, escaped, handed, decodeCalls, entry, run, prev>>

\* output_path.mkdir(parents=True, exist_ok=True)
CreateOutputDir ==
    /\ pc = "mkdir"
    /\ dirs' = dirs \cup Parents(output_dir)
    /\ pc' = "load"
    /\ UNCHANGED <<args, locals, files, loaded, raised, returned, result,
                   exitCode, escaped, handed, decodeCalls, entry, run, prev>>

\* mkdir raising OSError (no permission, name too long): the os.mkdir of a
\* component f fails, after the missing ancestors of f were created; f is a
\* missing component, or the directory itself when it exists and cannot be
\* reached.
CreateOutputDirFails ==
    /\ pc = "mkdir"
    /\ \E f \in Parents(output_dir) :
          /\ f \notin dirs \/ f = output_dir
          /\ dirs' = dirs \cup {q \in Parents(output_dir) : Len(q) < Len(f)}
    /\ Raise("OSError")
    /\ UNCHANGED <<args, locals, files, loaded, returned, result,
                   exitCode, escaped, handed, decodeCalls, entry, run, prev>>

\* audio_data, orig_sr = librosa.load(input_file, sr=sample_rate, mono=True)
LoadAudio ==
    /\ pc = "load"
    /\ decodeCalls' = decodeCalls + 1
    /\ IF mp3.decodable
       THEN /\ audio_data' = mp3.samples
            /\ loaded' = TRUE
            /\ pc' = "split"
            /\ UNCHANGED raised
       ELSE /\ Raise("DecodeError")
            /\ UNCHANGED <<audio_data, loaded>>
    /\ UNCHANGED <<args, samples_per_clip, num_clips, i, created_files, dirs,
                   files, returned, result, exitCode, escaped, handed, entry, run, prev>>

\* samples_per_clip, total_samples, num_clips, base_filename, created_files
ComputeClips ==
    /\ pc = "split"
    /\ samples_per_clip' = SamplesPerClip(clip_duration, sample_rate)
    /\ IF samples_per_clip' = 0
       THEN /\ Raise("ZeroDivisionError")
            /\ UNCHANGED <<num_clips, i, created_files>>
       ELSE /\ num_clips' = NumClips(Len(audio_data), samples_per_clip')
            /\ created_files' = <<>>
            /\ i' = 0
            /\ pc' = "loop"
            /\ UNCHANGED raised
    /\ UNCHANGED <<args, audio_data, dirs, files, loaded, returned, result,
                   exitCode, escaped, handed, decodeCalls, entry, run, prev>>

Call(ok) ==
    [idx |-> i, path |-> ClipPath(i),
     raw |-> RawLen(audio_data, i, samples_per_clip),
     data |-> ClipData(audio_data, i, samples_per_clip),
     rate |-> sample_rate, ok |-> ok]

\* One iteration of the clip loop.
WriteClip ==
    /\ pc = "loop"
    /\ i < num_clips
    /\ files' = WriteFile(files, ClipPath(i),
                          ClipData(audio_data, i, samples_per_clip), sample_rate)
    /\ created_files' = Append(created_files, ClipPath(i))
    /\ handed' = Append(handed, Call(TRUE))
    /\ i' = i + 1
    /\ UNCHANGED <<args, audio_data, samples_per_clip, num_clips, dirs, pc,
                   loaded, raised, returned, result, exitCode, escaped, decodeCalls,
                   entry, run, prev>>

\* A failed write that is swallowed: the loop goes on to the next clip.
WriteClipFailsContinues ==
    /\ pc = "loop"
    /\ i < num_clips
    /\ handed' = Append(handed, Call(FALSE))
    /\ i' = i + 1
    /\ UNCHANGED <<args, audio_data, samples_per_clip, num_clips,
                   created_files, dirs, files, pc, loaded, raised, returned,
                   result, exitCode, escaped, decodeCalls, entry, run, prev>>

\* An iteration in which sf.write raises.
WriteClipFails ==
    /\ pc = "loop"
    /\ i < num_clips
    /\ files' \in FailedWrites(files, ClipPath(i),
                     ClipData(audio_data, i, samples_per_clip), sample_rate)
    /\ handed' = Append(handed, Call(FALSE))
    /\ Raise("EncodeError")
    /\ UNCHANGED <<args, locals, dirs, loaded, returned, result, exitCode,
                   escaped, decodeCalls, entry, run, prev>>

\* return created_files
ReturnManifest ==
    /\ pc = "loop"
    /\ i >= num_clips
    /\ returned' = TRUE
    /\ result' = created_files
    /\ pc' = "returned"
    /\ UNCHANGED <<args, locals, dirs, files, loaded, raised, exitCode, escaped, handed,
                   decodeCalls, entry, run, prev>>

\* main: the prints of lines 152-153 succeed and the try block completes;
\* return 0
MainSuccess ==
    /\ pc = "returned"
    /\ CanPrint(stdout_encoding, Line152)
    /\ CanPrint(stdout_encoding, Line153)
    /\ exitCode' = 0
    /\ pc' = "exit"
    /\ UNCHANGED <<args, locals, dirs, files, loaded, raised, returned, result,
                   escaped, handed, decodeCalls, entry, run, prev>>

\* main: the print of line 152 or of line 153 raises UnicodeEncodeError
\* inside the try block, and control passes to the handler.
MainSuccessPrintFails ==
    /\ pc = "returned"
    /\ ~(CanPrint(stdout_encoding, Line152)
          /\ CanPrint(stdout_encoding, Line153))
    /\ pc' = "except"
    /\ UNCHANGED <<args, locals, dirs, files, loaded, raised, returned, result,
                   exitCode, escaped, handed, decodeCalls, entry, run, prev>>

\* main: except Exception as e: print, return 1; when the print of line 156
\* raises in turn, that exception leaves main.
MainExcept ==
    /\ pc = "except"
    /\ IF CanPrint(stdout_encoding, Line156)
       THEN /\ exitCode' = 1
            /\ UNCHANGED escaped
       ELSE /\ escaped' = "UnicodeEncodeError"
            /\ UNCHANGED exitCode
    /\ pc' = "exit"
    /\ UNCHANGED <<args, locals, dirs, files, loaded, raised, returned, result,
                   handed, decodeCalls, entry, run, prev>>

\* exit(main()): the status of the process, 1 after an uncaught exception.
ProcessStatus == IF escaped # "none" THEN 1 ELSE exitCode

\* The program is invoked a second time with the same arguments.
Rerun ==
    /\ pc = "exit"
    /\ run = 1
    /\ run' = 2
    /\ prev' = [returned |-> returned, result |-> result, dirs |-> dirs,
                files |-> files]
    /\ entry' = [dirs |-> dirs, files |-> files, decodes |-> decodeCalls]
    /\ pc' = "validate"
    /\ loaded' = FALSE
    /\ audio_data' = <<>>
    /\ samples_per_clip' = 0
    /\ num_clips' = 0
    /\ i' = 0
    /\ created_files' = <<>>
    /\ raised' = "none"
    /\ returned' = FALSE
    /\ result' = <<>>
    /\ exitCode' = -1
    /\ escaped' = "none"
    /\ handed' = <<>>
    /\ UNCHANGED <<args, dirs, files, decodeCalls>>

Next ==
    \/ RaisePermissionError
    \/ RaiseFileNotFound
    \/ RaiseValueError
    \/ ValidateOk
    \/ CreateOutputDir
    \/ CreateOutputDirFails
    \/ LoadAudio
    \/ ComputeClips
    \/ WriteClip
    \/ WriteClipFails
    \/ ReturnManifest
    \/ MainSuccess
    \/ MainSuccessPrintFails
    \/ MainExcept
    \/ Rerun

Spec == Init /\ [][Next]_vars

TypeOK ==
    /\ pc \in {"validate", "mkdir", "load", "split", "loop", "returned",
               "except", "exit"}
    /\ run \in {1, 2}
    /\ exitCode \in {-1, 0, 1}
-----------------------------------------------------------------------------
\* Properties.

spc == clip_duration * sample_rate

\* C1 (padding law): every clip handed to the WAV writer, the last one
\* included, has length exactly clip_duration * sample_rate.
C1_PaddingLaw ==
    \A k \in 1 .. Len(handed) : Len(handed[k].data) = spc

\* A later clip whose raw slice was shorter than a clip has been handed over.
C1_Witness ==
    \E k \in 2 .. Len(handed) :
        /\ 0 < handed[k].raw
        /\ handed[k].raw < spc
        /\ handed[k].ok

\* C2 (clip count): for a positive samples_per_clip the number of clips is
\* ceil(L / samples_per_clip), that is the least n with n * samples_per_clip
\* >= L, and the raw slice of the final clip has length
\* L - (num_clips - 1) * samples_per_clip, between 1 and samples_per_clip.
C2_ClipCount ==
    (loaded /\ samples_per_clip > 0) =>
        LET L == Len(audio_data)
        IN /\ samples_per_clip = spc
           /\ num_clips >= 0
           /\ num_clips * spc >= L
           /\ (num_clips - 1) * spc < L
           /\ \A k \in 1 .. Len(handed) :
                 handed[k].idx = num_clips - 1 =>
                     /\ handed[k].raw = L - (num_clips - 1) * spc
                     /\ 1 <= handed[k].raw
                     /\ handed[k].raw <= spc

\* The final clip of a run of several clips has been handed over, and its raw
\* slice is shorter than a clip.
C2_Witness ==
    /\ loaded
    /\ num_clips >= 2
    /\ \E k \in 1 .. Len(handed) :
          /\ handed[k].idx = num_clips - 1
          /\ handed[k].raw < spc

RECURSIVE ConcatData(_, _)
ConcatData(paths, fs) ==
    IF paths = <<>> THEN <<>>
    ELSE fs[Head(paths)].data \o ConcatData(Tail(paths), fs)

\* C3 (round trip): the clips written so far, concatenated in index order,
\* agree with the buffer sample for sample on the first L positions and are 0
\* at every position from L on; once the run has returned they cover the
\* whole buffer.
C3_RoundTrip ==
    (loaded /\ samples_per_clip > 0) =>
        LET L == Len(audio_data)
            cat == ConcatData(created_files, files)
        IN /\ \A p \in 1 .. Len(cat) :
                 cat[p] = IF p <= L THEN audio_data[p] ELSE 0
           /\ returned => Len(cat) >= L
           /\ Len(cat) = Len(created_files) * spc

\* A run over a buffer with a nonzero sample that is not a whole number of
\* clips has returned after writing several clips.
C3_Witness ==
    /\ returned
    /\ samples_per_clip > 0
    /\ Len(result) >= 2
    /\ Len(audio_data) % samples_per_clip # 0
    /\ \E p \in 1 .. Len(audio_data) : audio_data[p] # 0

IsDigit(c) == c \in {"0", "1", "2", "3", "4", "5", "6", "7", "8", "9"}
DigitValue(c) == CHOOSE d \in 0 .. 9 : DigitChar(d) = c

RECURSIVE ParseNat(_)
ParseNat(ds) ==
    IF ds = <<>> THEN 0
    ELSE 10 * ParseNat(SubSeq(ds, 1, Len(ds) - 1)) + DigitValue(ds[Len(ds)])

\* The name of clip number n of the input: the directory, a slash, the input
\* name without its four-character extension, "_clip_", digits, ".wav", where
\* the digits are at least three, denote n and have no zero in front beyond
\* the third place.
IsClipPathOf(p, n) ==
    LET head == output_dir \o <<"/">>
                  \o SubSeq(input_file, 1, Len(input_file) - 4)
                  \o <<"_", "c", "l", "i", "p", "_">>
        ds == SubSeq(p, Len(head) + 1, Len(p) - 4)
    IN /\ Len(p) >= Len(head) + 3 + 4
       /\ SubSeq(p, 1, Len(head)) = head
       /\ SubSeq(p, Len(p) - 3, Len(p)) = <<".", "w", "a", "v">>
       /\ \A k \in 1 .. Len(ds) : IsDigit(ds[k])
       /\ Len(ds) > 3 => ds[1] # "0"
       /\ ParseNat(ds) = n

\* C4 (filename and manifest law): the returned list has one entry per clip
\* (num_clips of them for a positive samples_per_clip); entry i (0-based) is
\* <output_dir>/<stem>_clip_<i+1 to 3 digits>.wav and is the file clip i was
\* written to; the entries are in ascending clip order without duplicates.
C4_ManifestLaw ==
    returned =>
        /\ Len(result) = Len(handed)
        /\ samples_per_clip > 0 => Len(result) = num_clips
        /\ \A k \in 1 .. Len(result) :
              /\ IsClipPathOf(result[k], k)
              /\ handed[k].idx = k - 1
              /\ handed[k].path = result[k]
              /\ result[k] \in DOMAIN files
              /\ files[result[k]] = [data |-> handed[k].data,
                                     rate |-> sample_rate]
        /\ \A j, k \in 1 .. Len(result) : j # k => result[j] # result[k]

\* A run has returned a manifest of at least ten clips.
C4_Witness ==
    /\ returned
    /\ Len(result) >= 10

\* The extension test said without pathlib: the name is longer than four
\* characters and its last four, lower-cased, are ".mp3".
HasMp3Extension(name) ==
    /\ Len(name) > 4
    /\ Lower(SubSeq(name, Len(name) - 3, Len(name))) = <<".", "m", "p", "3">>

Rejected == {"PermissionError", "FileNotFoundError", "ValueError"}

C6_AbortOnEncodeFailure ==
    /\ \A k \in 1 .. Len(handed) : handed[k].idx = k - 1
    /\ \A k \in 1 .. Len(handed) :
          ~handed[k].ok =>
              /\ k = Len(handed)
              /\ raised = "EncodeError"
              /\ pc \in {"except", "exit"}
              /\ ~returned
              /\ \A j \in 1 .. k - 1 :
                    /\ handed[j].ok
                    /\ handed[j].path \in DOMAIN files
                    /\ files[handed[j].path] = [data |-> handed[j].data,
                                                rate |-> handed[j].rate]
              /\ \A p \in (DOMAIN files \cup DOMAIN entry.files)
                              \ {handed[j].path : j \in 1 .. k} :
                    /\ p \in DOMAIN files
                    /\ p \in DOMAIN entry.files
                    /\ files[p] = entry.files[p]

\* Encoding failed at the third clip of a run that had more to write.
C6_Witness ==
    /\ Len(handed) = 3
    /\ ~handed[3].ok
    /\ num_clips > 3
    /\ pc = "exit"

\* C7 (as claimed): a run with a non-positive clip duration never completes
\* normally.
C7_NonPositiveDurationFails ==
    clip_duration <= 0 => ~returned

\* C8 (exit status, as claimed): main returns 0 exactly when
\* convert_mp3_to_wav_clips returned normally, returns 1 whenever it raised,
\* and no exception leaves main.
C8_ExitStatus ==
    pc = "exit" =>
        /\ escaped = "none"
        /\ exitCode = 0 <=> returned
        /\ raised # "none" => exitCode = 1

\* C9 (empty buffer): when the input decodes to a buffer of length 0 and
\* samples_per_clip is positive, the run raises nothing, computes 0 clips,
\* writes nothing and returns an empty manifest, and the output directory
\* exists.
C9_EmptyBuffer ==
    (loaded /\ audio_data = <<>> /\ spc > 0) =>
        /\ raised = "none"
        /\ handed = <<>>
        /\ files = entry.files
        /\ output_dir \in dirs
        /\ pc # "split" => num_clips = 0
        /\ pc \notin {"split", "loop"} => (returned /\ result = <<>>)

\* A run on an empty buffer has returned, and it had to create the output
\* directory.
C9_Witness ==
    /\ loaded
    /\ audio_data = <<>>
    /\ spc > 0
    /\ returned
    /\ output_dir \notin entry.dirs

\* C10 (idempotence): when two successive invocations with the same
\* arguments both return, the second leaves the same directories, the same
\* files with the same content and returns the same manifest as the first.
C10_Idempotent ==
    (run = 2 /\ returned /\ prev.returned) =>
        /\ files = prev.files
        /\ dirs = prev.dirs
        /\ result = prev.result

\* The second invocation has returned after overwriting several files of the
\* first.
C10_Witness ==
    /\ run = 2
    /\ returned
    /\ prev.returned
    /\ Len(result) >= 2
    /\ pc = "exit"
====
